---- MODULE Spec2Model ----
(***************************************************************************)
(* Model of measurement_integration.py: the CSV -> group statistics        *)
(* pipeline (read_csv, process_data, write_csv, main) and the matched-pair *)
(* path (process_matching_day_condition with its nested find_column).      *)
(*                                                                         *)
(* Strings that the program inspects character by character (column names, *)
(* the comma separated condition_col argument) are sequences of one        *)
(* character strings.  Cell values are tagged records (int, float, str,    *)
(* nan).  Real numbers are kept exact: a mean is a fraction, a std or sem  *)
(* is the square root of a fraction.                                       *)
(***************************************************************************)
EXTENDS Integers, Sequences, FiniteSets, TLC

VARIABLES
    pc,           \* the statement the run (or the call) is at
    argv,         \* the command line, a sequence of tokens
    args,         \* the parsed arguments
    fs,           \* the file system: the input file and whether out is writable
    data,         \* the DataFrame read (or passed to the call)
    processed,    \* processed_data of main
    exit_status,  \* "running", or the exit status of the process
    printed,      \* what was printed, in order
    called,       \* the functions and steps executed, in order
    written,      \* the output file
    request,      \* the arguments of a call of process_matching_day_condition
    day_actual,   \* locals of process_matching_day_condition
    cond_actual,
    filtered,
    ret           \* what the call returned or raised

vars == <<pc, argv, args, fs, data, processed, exit_status, printed, called,
          written, request, day_actual, cond_actual, filtered, ret>>

(***************************************************************************)
(* Characters and Python's str operations                                  *)
(***************************************************************************)

\* The characters of the model in code point order (digits < upper case <
\* underscore < lower case), as Python compares strings.
Ascii == <<" ", ",", "-", ".", "0", "1", "2", "3", "4", "5", "6", "7", "8", "9",
           "A", "B", "C", "D", "E", "F", "G", "H", "I", "J", "K", "L", "M",
           "N", "O", "P", "Q", "R", "S", "T", "U", "V", "W", "X", "Y", "Z",
           "_",
           "a", "b", "c", "d", "e", "f", "g", "h", "i", "j", "k", "l", "m",
           "n", "o", "p", "q", "r", "s", "t", "u", "v", "w", "x", "y", "z">>

Ord(c) == CHOOSE i \in 1..Len(Ascii) : Ascii[i] = c

UpperFirst == Ord("A")
LowerFirst == Ord("a")

\* str.lower() on one character
LowerChar(c) ==
    LET o == Ord(c)
    IN  IF o >= UpperFirst /\ o < UpperFirst + 26
        THEN Ascii[LowerFirst + (o - UpperFirst)]
        ELSE c

\* str.lower()
Lower(s) == [i \in 1..Len(s) |-> LowerChar(s[i])]

\* Python's s < t on strings: lexicographic by code point
StrLess(s, t) ==
    \E k \in 1..(Len(t)) :
        /\ \A i \in 1..(k-1) : i <= Len(s) /\ s[i] = t[i]
        /\ \/ k = Len(s) + 1
           \/ k <= Len(s) /\ Ord(s[k]) < Ord(t[k])

IsSpace(c) == c = " "

\* str.strip()
RECURSIVE LStrip(_)
LStrip(s) == IF Len(s) > 0 /\ IsSpace(s[1]) THEN LStrip(Tail(s)) ELSE s
RECURSIVE RStrip(_)
RStrip(s) == IF Len(s) > 0 /\ IsSpace(s[Len(s)])
             THEN RStrip(SubSeq(s, 1, Len(s) - 1)) ELSE s
Strip(s) == RStrip(LStrip(s))

\* str.split(',') : the pieces between commas, empty pieces included
RECURSIVE SplitFrom(_, _, _)
SplitFrom(s, i, cur) ==
    IF i > Len(s) THEN <<cur>>
    ELSE IF s[i] = "," THEN <<cur>> \o SplitFrom(s, i + 1, <<>>)
    ELSE SplitFrom(s, i + 1, Append(cur, s[i]))
Split(s) == SplitFrom(s, 1, <<>>)

(***************************************************************************)
(* difflib.SequenceMatcher and difflib.get_close_matches (no junk: the     *)
(* autojunk heuristic only applies to sequences of 200 items or more)      *)
(***************************************************************************)

\* length of the longest common block starting at a[i], b[j] within the range
RECURSIVE RunLen(_, _, _, _, _, _)
RunLen(a, b, i, j, ahi, bhi) ==
    IF i < ahi /\ j < bhi /\ a[i + 1] = b[j + 1]
    THEN 1 + RunLen(a, b, i + 1, j + 1, ahi, bhi)
    ELSE 0

\* SequenceMatcher.find_longest_match(alo, ahi, blo, bhi): the longest block,
\* of those the one starting earliest in a, of those the earliest in b.
FindLongestMatch(a, b, alo, ahi, blo, bhi) ==
    LET starts == (alo..(ahi - 1)) \X (blo..(bhi - 1))
        len(p) == RunLen(a, b, p[1], p[2], ahi, bhi)
        best   == IF starts = {} THEN 0
                  ELSE CHOOSE k \in 0..(ahi - alo) :
                         /\ \E p \in starts : len(p) = k
                         /\ \A p \in starts : len(p) <= k
    IN  IF best = 0 THEN <<alo, blo, 0>>
        ELSE LET cands == {p \in starts : len(p) = best}
                 p0 == CHOOSE p \in cands :
                         \A q \in cands :
                            p[1] < q[1] \/ (p[1] = q[1] /\ p[2] <= q[2])
             IN  <<p0[1], p0[2], best>>

\* SequenceMatcher.get_matching_blocks, summed: the number of matched items
RECURSIVE Matches(_, _, _, _, _, _)
Matches(a, b, alo, ahi, blo, bhi) ==
    LET m == FindLongestMatch(a, b, alo, ahi, blo, bhi)
        i == m[1]
        j == m[2]
        k == m[3]
    IN  IF k = 0 THEN 0
        ELSE k
             + (IF alo < i /\ blo < j THEN Matches(a, b, alo, i, blo, j) ELSE 0)
             + (IF i + k < ahi /\ j + k < bhi
                THEN Matches(a, b, i + k, ahi, j + k, bhi) ELSE 0)

\* A ratio 2.0*matches/length as the fraction <<numerator, denominator>>;
\* _calculate_ratio returns 1.0 when both sequences are empty.
CalculateRatio(matches, length) ==
    IF length > 0 THEN <<2 * matches, length>> ELSE <<1, 1>>

\* SequenceMatcher.ratio()
Ratio(a, b) == CalculateRatio(Matches(a, b, 0, Len(a), 0, Len(b)), Len(a) + Len(b))

\* SequenceMatcher.quick_ratio(): multiset intersection of the items
Count(s, c) == Cardinality({i \in 1..Len(s) : s[i] = c})
Min(x, y) == IF x <= y THEN x ELSE y
RECURSIVE SumOver(_, _, _)
SumOver(S, a, b) ==
    IF S = {} THEN 0
    ELSE LET c == CHOOSE x \in S : TRUE
         IN  Min(Count(a, c), Count(b, c)) + SumOver(S \ {c}, a, b)
QuickRatio(a, b) ==
    CalculateRatio(SumOver({b[i] : i \in 1..Len(b)}, a, b), Len(a) + Len(b))

\* SequenceMatcher.real_quick_ratio()
RealQuickRatio(a, b) == CalculateRatio(Min(Len(a), Len(b)), Len(a) + Len(b))

\* fractions with positive denominators
FracGeq(x, y) == x[1] * y[2] >= y[1] * x[2]
FracEq(x, y)  == x[1] * y[2] = y[1] * x[2]
FracLess(x, y) == x[1] * y[2] < y[1] * x[2]

\* cutoff=0.7 of the get_close_matches call
CutoffNum == 7
CutoffDen == 10
Cutoff == <<CutoffNum, CutoffDen>>

\* faulty variant: a similarity equal to the cutoff is rejected
PassesStrict(x, word) ==
    /\ FracLess(Cutoff, RealQuickRatio(x, word))
    /\ FracLess(Cutoff, QuickRatio(x, word))
    /\ FracLess(Cutoff, Ratio(x, word))

\* the (score, x) pairs that pass the three cutoff tests, in the order of
\* the possibilities
Passes(x, word) ==
    /\ FracGeq(RealQuickRatio(x, word), Cutoff)
    /\ FracGeq(QuickRatio(x, word), Cutoff)
    /\ FracGeq(Ratio(x, word), Cutoff)

\* tuple comparison (score, x) < (score', x')
PairLess(p, q) ==
    \/ FracLess(p[1], q[1])
    \/ FracEq(p[1], q[1]) /\ StrLess(p[2], q[2])

\* difflib.get_close_matches(word, possibilities, n=1, cutoff=0.7): the list
\* holding the largest (score, x) pair, or the empty list
GetCloseMatches(word, possibilities) ==
    LET idx    == {i \in 1..Len(possibilities) : Passes(possibilities[i], word)}
        result == {<<Ratio(possibilities[i], word), possibilities[i]>> : i \in idx}
    IN  IF result = {} THEN <<>>
        ELSE <<(CHOOSE p \in result : \A q \in result : ~PairLess(p, q))[2]>>

(***************************************************************************)
(* find_column (nested in process_matching_day_condition)                  *)
(***************************************************************************)

None == <<"N", "o", "n", "e", " ">>   \* a value no column name of the model equals

\* lower_map = {c.lower(): c for c in df.columns}; lower_map[key]: the last
\* column whose lower-cased name is key
InLowerMap(columns, key) == \E i \in 1..Len(columns) : Lower(columns[i]) = key
LowerMap(columns, key) ==
    LET last == CHOOSE i \in 1..Len(columns) :
                  /\ Lower(columns[i]) = key
                  /\ \A j \in (i + 1)..Len(columns) : Lower(columns[j]) # key
    IN  columns[last]

\* the fuzzy step, lines 51-55
FuzzyMatch(columns, requested) ==
    LET matches == GetCloseMatches(requested, columns)
    IN  IF Len(matches) > 0 THEN matches[1] ELSE None

\* faulty variant: the case-insensitive lookup comes before the exact one
find_column_case_first(columns, requested) ==
    IF InLowerMap(columns, Lower(requested))
    THEN LowerMap(columns, Lower(requested))
    ELSE IF \E i \in 1..Len(columns) : columns[i] = requested
    THEN requested
    ELSE FuzzyMatch(columns, requested)

find_column(columns, requested) ==
    IF \E i \in 1..Len(columns) : columns[i] = requested
    THEN requested
    ELSE IF InLowerMap(columns, Lower(requested))
    THEN LowerMap(columns, Lower(requested))
    ELSE FuzzyMatch(columns, requested)

(***************************************************************************)
(* Cell values and numbers                                                 *)
(***************************************************************************)

\* a cell of a DataFrame: int64, float64 (n.0), str, or NaN
IntV(n)   == [t |-> "int",   n |-> n, s |-> <<>>]
FloatV(n) == [t |-> "float", n |-> n, s |-> <<>>]
StrV(x)   == [t |-> "str",   n |-> 0, s |-> x]
NaNV      == [t |-> "nan",   n |-> 0, s |-> <<>>]

IsNaN(v)     == v.t = "nan"
IsNumeric(v) == v.t \in {"int", "float", "nan"}

\* str(n) for the non-negative integers of the model
Digits == <<"0", "1", "2", "3", "4", "5", "6", "7", "8", "9">>
RECURSIVE IntStr(_)
IntStr(n) == IF n < 10 THEN <<Digits[n + 1]>>
             ELSE Append(IntStr(n \div 10), Digits[(n % 10) + 1])

\* Series.astype(str) on one cell: str(1) = "1", str(1.0) = "1.0",
\* str(nan) = "nan"
AsTypeStr(v) ==
    CASE v.t = "int"   -> IntStr(v.n)
      [] v.t = "float" -> IntStr(v.n) \o <<".", "0">>
      [] v.t = "str"   -> v.s
      [] v.t = "nan"   -> <<"n", "a", "n">>

\* value equality of group keys: 1 == 1.0
KeyEq(v, w) == IF v.t = "str" \/ w.t = "str" THEN v = w ELSE v.n = w.n
KeyLess(v, w) == IF v.t = "str" /\ w.t = "str" THEN StrLess(v.s, w.s)
                 ELSE v.n < w.n

\* A float of a statistic, kept exact:
\*   frac : num/den           sqrt : the square root of num/den
\*   nan  : missing           inf  : a division by zero
\*   raise: the evaluation raised
Frac(a, b) == [kind |-> "frac", num |-> a, den |-> b]
Sqrt(a, b) == [kind |-> "sqrt", num |-> a, den |-> b]
NaNF       == [kind |-> "nan",  num |-> 0, den |-> 1]
InfF       == [kind |-> "inf",  num |-> 0, den |-> 1]
RaiseF     == [kind |-> "raise", num |-> 0, den |-> 1]

\* x > 0 on floats: False for NaN
Gt0(x) == x.kind \in {"frac", "sqrt"} /\ x.num > 0

\* x / np.sqrt(c) for x a std (sqrt kind or NaN) and c a count
DivBySqrt(x, c) ==
    IF x.kind = "raise" \/ c.kind = "raise" THEN RaiseF
    ELSE IF x.kind = "nan" \/ c.kind = "nan" THEN NaNF
    ELSE IF c.num = 0 THEN (IF x.num = 0 THEN NaNF ELSE InfF)
    ELSE Sqrt(x.num * c.den, x.den * c.num)

(***************************************************************************)
(* DataFrames: [columns |-> sequence of names, rows |-> sequence of rows], *)
(* a row being the sequence of its cells in column order                   *)
(***************************************************************************)

DataFrame(columns, rows) == [columns |-> columns, rows |-> rows]

\* pd.DataFrame()
EmptyDataFrame == DataFrame(<<>>, <<>>)

HasColumn(df, name) == \E i \in 1..Len(df.columns) : df.columns[i] = name
ColumnIndex(df, name) == CHOOSE i \in 1..Len(df.columns) : df.columns[i] = name
Cell(df, r, name) == df.rows[r][ColumnIndex(df, name)]

\* s1 + s2 on strings
Chars_mean == <<"_", "m", "e", "a", "n">>
Chars_n    == <<"_", "n">>
Chars_std  == <<"_", "s", "t", "d">>
Chars_sem  == <<"_", "s", "e", "m">>

\* the labels DataFrameGroupBy.agg(['mean', 'count', 'std']) gives its columns
L_mean  == <<"m", "e", "a", "n">>
L_count == <<"c", "o", "u", "n", "t">>
L_std   == <<"s", "t", "d">>
L_sem   == <<"s", "e", "m">>

(***************************************************************************)
(* data.groupby(by)[measure].agg(['mean', 'count', 'std']).reset_index()   *)
(***************************************************************************)

\* the result of a call that may raise
Returned(frame) == [raised |-> FALSE, frame |-> frame]
Raised          == [raised |-> TRUE,  frame |-> EmptyDataFrame]

GroupKey(df, r, by) == [i \in 1..Len(by) |-> Cell(df, r, by[i])]

TupleEq(k1, k2) == \A i \in 1..Len(k1) : KeyEq(k1[i], k2[i])
TupleLess(k1, k2) ==
    \E i \in 1..Len(k1) :
        /\ \A j \in 1..(i - 1) : KeyEq(k1[j], k2[j])
        /\ KeyLess(k1[i], k2[i])

\* faulty variant: the rows with a missing key are kept (dropna=False)
KeptRowsKeepNaN(df, by) == {r \in 1..Len(df.rows) : TRUE}

\* groupby drops the rows that hold a missing value in a key column
\* (dropna=True, the default)
KeptRows(df, by) ==
    {r \in 1..Len(df.rows) : \A i \in 1..Len(by) : ~IsNaN(Cell(df, r, by[i]))}

\* the rows of the group that row r belongs to
Members(df, by, r) ==
    {q \in KeptRows(df, by) : TupleEq(GroupKey(df, q, by), GroupKey(df, r, by))}

\* one row per group: its first row
GroupReps(df, by) ==
    {r \in KeptRows(df, by) : \A q \in Members(df, by, r) : r <= q}

\* the groups in ascending key order (sort=True, the default)
RECURSIVE SortReps(_, _, _)
SortReps(df, by, S) ==
    IF S = {} THEN <<>>
    ELSE LET m == CHOOSE r \in S : \A q \in S \ {r} :
                     TupleLess(GroupKey(df, r, by), GroupKey(df, q, by))
         IN  <<m>> \o SortReps(df, by, S \ {m})

RECURSIVE SumCells(_, _, _, _)
SumCells(df, S, name, power) ==
    IF S = {} THEN 0
    ELSE LET r == CHOOSE x \in S : TRUE
             v == Cell(df, r, name).n
         IN  (IF power = 2 THEN v * v ELSE v) + SumCells(df, S \ {r}, name, power)

\* the non-missing measurements of a group
Measured(df, by, r, measure) ==
    {q \in Members(df, by, r) : ~IsNaN(Cell(df, q, measure))}

\* count, mean and sample standard deviation (ddof=1) of a group
GroupCount(df, by, r, measure) == Cardinality(Measured(df, by, r, measure))
GroupMean(df, by, r, measure) ==
    LET n == GroupCount(df, by, r, measure)
    IN  IF n = 0 THEN NaNF
        ELSE Frac(SumCells(df, Measured(df, by, r, measure), measure, 1), n)
GroupStd(df, by, r, measure) ==
    LET n  == GroupCount(df, by, r, measure)
        s1 == SumCells(df, Measured(df, by, r, measure), measure, 1)
        s2 == SumCells(df, Measured(df, by, r, measure), measure, 2)
    IN  IF n < 2 THEN NaNF ELSE Sqrt(n * s2 - s1 * s1, n * (n - 1))

AggRow(df, by, r, measure) ==
    GroupKey(df, r, by)
    \o <<GroupMean(df, by, r, measure),
         Frac(GroupCount(df, by, r, measure), 1),
         GroupStd(df, by, r, measure)>>

HasDuplicates(s) == \E i, j \in 1..Len(s) : i < j /\ s[i] = s[j]

\* raises for no keys (ValueError), an absent key or measure column
\* (KeyError), a repeated key (reset_index cannot insert it twice) and a
\* measure column of strings (TypeError)
GroupByAgg(df, by, measure) ==
    IF \/ Len(by) = 0
       \/ \E i \in 1..Len(by) : ~HasColumn(df, by[i])
       \/ ~HasColumn(df, measure)
       \/ HasDuplicates(by)
    THEN Raised
    ELSE IF \E r \in KeptRows(df, by) : ~IsNumeric(Cell(df, r, measure))
    THEN Raised
    ELSE LET reps == SortReps(df, by, GroupReps(df, by))
         IN  Returned(DataFrame(by \o <<L_mean, L_count, L_std>>,
                 [g \in 1..Len(reps) |-> AggRow(df, by, reps[g], measure)]))

(***************************************************************************)
(* agg['sem'] = agg.apply(lambda r: ..., axis=1)                           *)
(***************************************************************************)

\* r[label] on a row Series: KeyError for an absent label
RowGet(columns, cells, label) ==
    IF \E i \in 1..Len(columns) : columns[i] = label
    THEN cells[CHOOSE i \in 1..Len(columns) : columns[i] = label]
    ELSE RaiseF

\* faulty variant: std / count, without the square root
SemLambdaNoSqrt(columns, cells) ==
    LET count == RowGet(columns, cells, L_count)
        std   == RowGet(columns, cells, L_std)
    IN  IF count.kind = "raise" THEN RaiseF
        ELSE IF Gt0(count)
        THEN (IF std.kind = "sqrt"
              THEN Sqrt(std.num * count.den * count.den,
                        std.den * count.num * count.num)
              ELSE std)
        ELSE NaNF

\* faulty variant: the lambda reads the column under its name after the renaming
SemLambdaRenamed(columns, cells) ==
    LET count == RowGet(columns, cells, Chars_n)
    IN  IF count.kind = "raise" THEN RaiseF
        ELSE IF Gt0(count)
        THEN DivBySqrt(RowGet(columns, cells, L_std), count)
        ELSE NaNF

\* lambda r: (r['std'] / (np.sqrt(r['count']))) if r['count'] > 0 else np.nan
SemLambda(columns, cells) ==
    LET count == RowGet(columns, cells, L_count)
    IN  IF count.kind = "raise" THEN RaiseF
        ELSE IF Gt0(count)
        THEN DivBySqrt(RowGet(columns, cells, L_std), count)
        ELSE NaNF

\* DataFrame.apply(f, axis=1).  On a frame without rows pandas calls f once
\* on a row of NaN to see whether it reduces: when that call returns a
\* scalar the result is an empty Series, when it raises the result is a
\* copy of the frame, which cannot be assigned to one column (ValueError).
AddSem(agg) ==
    IF Len(agg.rows) = 0
    THEN IF SemLambda(agg.columns, [i \in 1..Len(agg.columns) |-> NaNF]).kind = "raise"
               /\ Len(agg.columns) # 1
         THEN Raised
         ELSE Returned(DataFrame(Append(agg.columns, L_sem), <<>>))
    ELSE IF \E r \in 1..Len(agg.rows) :
               SemLambda(agg.columns, agg.rows[r]).kind = "raise"
    THEN Raised
    ELSE Returned(DataFrame(Append(agg.columns, L_sem),
             [r \in 1..Len(agg.rows) |->
                 Append(agg.rows[r], SemLambda(agg.columns, agg.rows[r]))]))

\* agg.rename(columns={'mean': f'{measure_col}_mean', 'count': ..._n,
\*                     'std': ..._std, 'sem': ..._sem})
RenameColumn(c, measure) ==
    CASE c = L_mean  -> measure \o Chars_mean
      [] c = L_count -> measure \o Chars_n
      [] c = L_std   -> measure \o Chars_std
      [] c = L_sem   -> measure \o Chars_sem
      [] OTHER       -> c
Rename(agg, measure) ==
    DataFrame([i \in 1..Len(agg.columns) |-> RenameColumn(agg.columns[i], measure)],
              agg.rows)

\* lines 31-34 and 71-74: group, add the sem column, rename
Aggregate(df, by, measure) ==
    LET g == GroupByAgg(df, by, measure)
    IN  IF g.raised THEN Raised
        ELSE LET a == AddSem(g.frame)
             IN  IF a.raised THEN Raised
                 ELSE Returned(Rename(a.frame, measure))

(***************************************************************************)
(* The statements of process_matching_day_condition after the resolution   *)
(***************************************************************************)

\* faulty variant: "and" for "or"
NotFoundBoth(day, cond) == day = None /\ cond = None

\* line 59: day_actual is None or cond_actual is None
NotFound(day, cond) == day = None \/ cond = None

\* faulty variant: the cells are compared without astype(str)
MaskRowRaw(columns, row, day, cond) ==
    LET d == CHOOSE i \in 1..Len(columns) : columns[i] = day
        c == CHOOSE i \in 1..Len(columns) : columns[i] = cond
    IN  row[d] = row[c]

\* line 65: data[day_actual].astype(str) == data[cond_actual].astype(str)
MaskRow(columns, row, day, cond) ==
    LET d == CHOOSE i \in 1..Len(columns) : columns[i] = day
        c == CHOOSE i \in 1..Len(columns) : columns[i] = cond
    IN  AsTypeStr(row[d]) = AsTypeStr(row[c])

\* line 66: data[mask].copy()
FilterRows(df, day, cond) ==
    DataFrame(df.columns,
              SelectSeq(df.rows, LAMBDA row : MaskRow(df.columns, row, day, cond)))

\* line 71: the column filtered.groupby(...) is given
GroupByColumn(day_col, day) == day_col

(***************************************************************************)
(* process_data                                                            *)
(***************************************************************************)

\* [c.strip() for c in condition_cols.split(',') if c.strip()]
ParseConditionCols(condition_cols) ==
    LET pieces == Split(condition_cols)
    IN  SelectSeq([i \in 1..Len(pieces) |-> Strip(pieces[i])],
                  LAMBDA c : Len(c) > 0)

\* faulty variant: the matched-pair aggregation of the first two requested columns
\* runs in place of the group aggregation
process_data_matched(df, condition_cols, measure_col) ==
    LET cols == ParseConditionCols(condition_cols)
    IN  IF Len(cols) < 2 THEN Raised
        ELSE LET day  == find_column(df.columns, cols[1])
                 cond == find_column(df.columns, cols[2])
             IN  IF NotFound(day, cond) THEN Returned(EmptyDataFrame)
                 ELSE IF Len(FilterRows(df, day, cond).rows) = 0
                 THEN Returned(EmptyDataFrame)
                 ELSE Aggregate(FilterRows(df, day, cond), <<cols[1]>>, measure_col)

\* the call either returns the aggregate table or, on any exception, prints
\* "Error processing data" and exits with status 1
process_data(df, condition_cols, measure_col) ==
    Aggregate(df, ParseConditionCols(condition_cols), measure_col)

(***************************************************************************)
(* read_csv: a file is unreadable or holds a header and records of text    *)
(* fields; pd.read_csv infers each column's dtype                          *)
(***************************************************************************)

IsDigit(c) == \E i \in 1..Len(Digits) : Digits[i] = c
IsIntLiteral(f) == Len(f) > 0 /\ \A i \in 1..Len(f) : IsDigit(f[i])
RECURSIVE IntOf(_)
IntOf(f) == IF Len(f) = 0 THEN 0
            ELSE 10 * IntOf(SubSeq(f, 1, Len(f) - 1))
                 + (CHOOSE d \in 0..9 : Digits[d + 1] = f[Len(f)])

\* the dtype pd.read_csv gives column c: int64 when every field is an
\* integer, float64 when the others are empty, object otherwise
ColumnDtype(records, c) ==
    IF \A r \in 1..Len(records) : IsIntLiteral(records[r][c]) THEN "int"
    ELSE IF \A r \in 1..Len(records) :
               IsIntLiteral(records[r][c]) \/ Len(records[r][c]) = 0
    THEN "float"
    ELSE "str"

ParseField(f, dtype) ==
    IF Len(f) = 0 THEN NaNV
    ELSE CASE dtype = "int"   -> IntV(IntOf(f))
           [] dtype = "float" -> FloatV(IntOf(f))
           [] OTHER           -> StrV(f)

PdReadCsv(file) ==
    DataFrame(file.header,
        [r \in 1..Len(file.records) |->
            [c \in 1..Len(file.header) |->
                ParseField(file.records[r][c], ColumnDtype(file.records, c))]])

\* faulty variant: a failed read is swallowed and an empty DataFrame returned
read_csv_swallow(file) ==
    IF file.readable THEN Returned(PdReadCsv(file)) ELSE Returned(EmptyDataFrame)

\* read_csv(file_path): the DataFrame, or "Error reading" and exit status 1
read_csv(file) == IF file.readable THEN Returned(PdReadCsv(file)) ELSE Raised

(***************************************************************************)
(* Messages                                                                *)
(***************************************************************************)

Msg(stream, text)        == [stream |-> stream, text |-> text, arg |-> <<>>]
MsgArg(stream, text, a)  == [stream |-> stream, text |-> text, arg |-> a]

(***************************************************************************)
(* main: parse_args, read_csv, process_data, write_csv                     *)
(***************************************************************************)

NoArgs == [parsed |-> FALSE, input_csv |-> <<>>, output_csv |-> <<>>,
           condition_col |-> <<>>, measure_col |-> <<>>]
NoRequest == [day_col |-> <<>>, cond_col |-> <<>>, measure_col |-> <<>>]
NotWritten == [exists |-> FALSE, frame |-> EmptyDataFrame]
NoRet == [kind |-> "none", frame |-> EmptyDataFrame]

HelpFlag == <<"-", "h">>
IsOption(tok) == Len(tok) > 0 /\ tok[1] = "-"

\* parser.parse_args() with four positional arguments: "help" (-h prints the
\* help and exits 0), "error" (usage on stderr, exit status 2) or "ok"
ParseArgsOutcome(tokens) ==
    IF \E i \in 1..Len(tokens) : tokens[i] = HelpFlag THEN "help"
    ELSE IF Len(tokens) # 4 \/ \E i \in 1..Len(tokens) : IsOption(tokens[i])
    THEN "error"
    ELSE "ok"

ParseArgs ==
    /\ pc = "parse_args"
    /\ LET outcome == ParseArgsOutcome(argv)
       IN  CASE outcome = "help" ->
                  /\ printed' = Append(printed, Msg("stdout", "help"))
                  /\ exit_status' = "0"
                  /\ pc' = "exited"
                  /\ args' = args
             [] outcome = "error" ->
                  /\ printed' = Append(printed, Msg("stderr", "usage"))
                  /\ exit_status' = "2"
                  /\ pc' = "exited"
                  /\ args' = args
             [] OTHER ->
                  /\ args' = [parsed |-> TRUE, input_csv |-> argv[1],
                              output_csv |-> argv[2], condition_col |-> argv[3],
                              measure_col |-> argv[4]]
                  /\ pc' = "read_csv"
                  /\ UNCHANGED <<printed, exit_status>>
    /\ UNCHANGED <<argv, fs, data, processed, called, written, request,
                   day_actual, cond_actual, filtered, ret>>

\* data = read_csv(args.input_csv)
ReadCsv ==
    /\ pc = "read_csv"
    /\ called' = Append(called, "read_csv")
    /\ LET r == read_csv(fs.input)
       IN  IF r.raised
           THEN /\ printed' = Append(printed, Msg("stdout", "Error reading"))
                /\ exit_status' = "1"
                /\ pc' = "exited"
                /\ data' = data
           ELSE /\ data' = r.frame
                /\ pc' = "process_data"
                /\ UNCHANGED <<printed, exit_status>>
    /\ UNCHANGED <<argv, args, fs, processed, written, request,
                   day_actual, cond_actual, filtered, ret>>

\* processed_data = process_data(data, args.condition_col, args.measure_col)
ProcessData ==
    /\ pc = "process_data"
    /\ called' = Append(called, "process_data")
    /\ LET r == process_data(data, args.condition_col, args.measure_col)
       IN  IF r.raised
           THEN /\ printed' = Append(printed, Msg("stdout", "Error processing data"))
                /\ exit_status' = "1"
                /\ pc' = "exited"
                /\ processed' = processed
           ELSE /\ processed' = r.frame
                /\ pc' = "write_csv"
                /\ UNCHANGED <<printed, exit_status>>
    /\ UNCHANGED <<argv, args, fs, data, written, request,
                   day_actual, cond_actual, filtered, ret>>

\* write_csv(processed_data, args.output_csv); then main returns and the
\* interpreter exits with status 0
WriteCsv ==
    /\ pc = "write_csv"
    /\ called' = Append(called, "write_csv")
    /\ IF fs.writable
       THEN /\ written' = [exists |-> TRUE, frame |-> processed]
            /\ printed' = Append(printed, Msg("stdout", "Output written"))
            /\ exit_status' = "0"
       ELSE /\ written' = written
            /\ printed' = Append(printed, Msg("stdout", "Error writing"))
            /\ exit_status' = "1"
    /\ pc' = "exited"
    /\ UNCHANGED <<argv, args, fs, data, processed, request,
                   day_actual, cond_actual, filtered, ret>>

(***************************************************************************)
(* process_matching_day_condition, statement by statement                  *)
(***************************************************************************)

\* lines 57-62
FindColumns ==
    /\ pc = "find_columns"
    /\ day_actual' = find_column(data.columns, request.day_col)
    /\ cond_actual' = find_column(data.columns, request.cond_col)
    /\ called' = called \o <<"find_column", "find_column">>
    /\ IF NotFound(day_actual', cond_actual')
       THEN /\ printed' = printed \o
                 <<Msg("stdout", "Could not find columns requested. Available columns:"),
                   MsgArg("stdout", "columns", data.columns)>>
            /\ ret' = [kind |-> "returned", frame |-> EmptyDataFrame]
            /\ pc' = "returned"
       ELSE /\ pc' = "filter"
            /\ UNCHANGED <<printed, ret>>
    /\ UNCHANGED <<argv, args, fs, data, processed, exit_status, written,
                   request, filtered>>

\* lines 64-69; indexing with a name that is no column raises KeyError,
\* which line 75 catches, reports and raises again
FilterMatching ==
    /\ pc = "filter"
    /\ called' = Append(called, "filter")
    /\ IF ~HasColumn(data, day_actual) \/ ~HasColumn(data, cond_actual)
       THEN /\ printed' = Append(printed,
                   Msg("stdout", "Error in process_matching_day_condition"))
            /\ ret' = [kind |-> "raised", frame |-> EmptyDataFrame]
            /\ pc' = "raised"
            /\ filtered' = filtered
       ELSE LET f == FilterRows(data, day_actual, cond_actual)
            IN  /\ filtered' = f
                /\ IF Len(f.rows) = 0
                   THEN /\ printed' = Append(printed, Msg("stdout", "No rows where"))
                        /\ ret' = [kind |-> "returned", frame |-> EmptyDataFrame]
                        /\ pc' = "returned"
                   ELSE /\ pc' = "aggregate"
                        /\ UNCHANGED <<printed, ret>>
    /\ UNCHANGED <<argv, args, fs, data, processed, exit_status, written,
                   request, day_actual, cond_actual>>

\* lines 71-77
AggregateMatching ==
    /\ pc = "aggregate"
    /\ called' = Append(called, "groupby")
    /\ LET r == Aggregate(filtered,
                          <<GroupByColumn(request.day_col, day_actual)>>,
                          request.measure_col)
       IN  IF r.raised
           THEN /\ printed' = Append(printed,
                       Msg("stdout", "Error in process_matching_day_condition"))
                /\ ret' = [kind |-> "raised", frame |-> EmptyDataFrame]
                /\ pc' = "raised"
           ELSE /\ ret' = [kind |-> "returned", frame |-> r.frame]
                /\ pc' = "returned"
                /\ printed' = printed
    /\ UNCHANGED <<argv, args, fs, data, processed, exit_status, written,
                   request, day_actual, cond_actual, filtered>>

\* a call of find_column alone
FindColumn ==
    /\ pc = "find_column"
    /\ day_actual' = find_column(data.columns, request.day_col)
    /\ called' = Append(called, "find_column")
    /\ pc' = "found"
    /\ UNCHANGED <<argv, args, fs, data, processed, exit_status, printed,
                   written, request, cond_actual, filtered, ret>>

(***************************************************************************)
(* The inputs of the model                                                 *)
(***************************************************************************)

MaxRows == 2          \* records of an input file
MaxMatchedRows == 3   \* rows of a table passed to process_matching_day_condition
MaxCols == 2          \* columns of a table given to find_column

\* names, requests and arguments, as character sequences
Metadata_Day == <<"M", "e", "t", "a", "d", "a", "t", "a", "_", "D", "a", "y">>
Metadata_Condition == <<"M", "e", "t", "a", "d", "a", "t", "a", "_", "C", "o", "n", "d", "i", "t", "i", "o", "n">>
Count_Cells == <<"C", "o", "u", "n", "t", "_", "C", "e", "l", "l", "s">>
metadata_day == <<"m", "e", "t", "a", "d", "a", "t", "a", "_", "d", "a", "y">>
METADATA_DAY == <<"M", "E", "T", "A", "D", "A", "T", "A", "_", "D", "A", "Y">>
Metadata_Dy == <<"M", "e", "t", "a", "d", "a", "t", "a", "_", "D", "y">>
Name_abcdefgxyz == <<"a", "b", "c", "d", "e", "f", "g", "x", "y", "z">>
Name_abcdefgQRS == <<"a", "b", "c", "d", "e", "f", "g", "Q", "R", "S">>
Name_abcdefQRST == <<"a", "b", "c", "d", "e", "f", "Q", "R", "S", "T">>
Name_Dax == <<"D", "a", "x">>
Name_Da == <<"D", "a">>
Name_Time == <<"T", "i", "m", "e">>
Name_Count == <<"C", "o", "u", "n", "t">>
Name_Day == <<"D", "a", "y">>
Name_day == <<"d", "a", "y">>
Name_Dy == <<"D", "y">>
Name_Condition == <<"C", "o", "n", "d", "i", "t", "i", "o", "n">>
Name_condition == <<"c", "o", "n", "d", "i", "t", "i", "o", "n">>
Name_Conditon == <<"C", "o", "n", "d", "i", "t", "o", "n">>
Name_Xyz == <<"X", "y", "z">>
Path_in == <<"i", "n">>
Path_out == <<"o", "u", "t">>
Arg_Day_Condition == <<"M", "e", "t", "a", "d", "a", "t", "a", "_", "D", "a", "y", ",", "M", "e", "t", "a", "d", "a", "t", "a", "_", "C", "o", "n", "d", "i", "t", "i", "o", "n">>
Arg_Condition_Day_spaced == <<" ", "M", "e", "t", "a", "d", "a", "t", "a", "_", "C", "o", "n", "d", "i", "t", "i", "o", "n", " ", ",", " ", "M", "e", "t", "a", "d", "a", "t", "a", "_", "D", "a", "y">>
Arg_Day_empty_Condition == <<"M", "e", "t", "a", "d", "a", "t", "a", "_", "D", "a", "y", ",", ",", "M", "e", "t", "a", "d", "a", "t", "a", "_", "C", "o", "n", "d", "i", "t", "i", "o", "n">>
Arg_only_commas == <<" ", ",", " ">>
Arg_Day_Day == <<"M", "e", "t", "a", "d", "a", "t", "a", "_", "D", "a", "y", ",",
                 "M", "e", "t", "a", "d", "a", "t", "a", "_", "D", "a", "y">>

SeqsUpTo(S, n) == UNION {[1..k -> S] : k \in 0..n}

\* input files with the header Metadata_Day,Metadata_Condition,Count_Cells
MainHeader == <<Metadata_Day, Metadata_Condition, Count_Cells>>
RawRecords == {<<d, c, m>> : d \in {<<"1">>, <<>>},
                             c \in {<<"1">>, <<"2">>},
                             m \in {<<"1">>, <<"3">>, <<>>}}
Unreadable == [readable |-> FALSE, header |-> <<>>, records |-> <<>>]
Files == {Unreadable} \cup
         {[readable |-> TRUE, header |-> MainHeader, records |-> recs] :
             recs \in SeqsUpTo(RawRecords, MaxRows)}

ConditionArgs == {Metadata_Day, Arg_Day_Condition, Arg_Condition_Day_spaced,
                  Arg_Day_empty_Condition, Name_Time, Arg_only_commas,
                  Arg_Day_Day}
MeasureArgs == {Count_Cells, Name_Count}
ArgvSet == {<<Path_in, Path_out, c, m>> : c \in ConditionArgs, m \in MeasureArgs}
           \cup {<<HelpFlag>>, <<Path_in, Path_out, Metadata_Day>>}

\* tables passed to process_matching_day_condition: columns Day (int64 or
\* float64), Condition (str) and Count (int64, float64 when a value is missing)
MatchedColumns == <<Name_Day, Name_Condition, Name_Count>>
MatchedRowPool == {<<1, <<"1">>, IntV(10)>>, <<1, <<"2">>, IntV(20)>>,
                   <<2, <<"2">>, IntV(30)>>, <<2, <<"2">>, IntV(10)>>,
                   <<2, <<"2">>, NaNV>>}
MeasureCell(rows, m) ==
    IF m.t = "int" /\ \E r \in 1..Len(rows) : IsNaN(rows[r][3])
    THEN FloatV(m.n) ELSE m
MatchedFrame(day_dtype, rows) ==
    DataFrame(MatchedColumns,
        [r \in 1..Len(rows) |->
            <<IF day_dtype = "int" THEN IntV(rows[r][1]) ELSE FloatV(rows[r][1]),
              StrV(rows[r][2]),
              MeasureCell(rows, rows[r][3])>>])
MatchedTables == {MatchedFrame(t, rows) : t \in {"int", "float"},
                                          rows \in SeqsUpTo(MatchedRowPool, MaxMatchedRows)}
DayRequests  == {Name_Day, Name_day, Name_Dy, Name_Time}
CondRequests == {Name_Condition, Name_condition, Name_Conditon, Name_Xyz}

\* column sets and requests given to find_column alone
NamePool == {Metadata_Day, metadata_day, Metadata_Condition, Name_abcdefgxyz,
             Name_Dax, Name_Day}
RequestPool == {Metadata_Day, metadata_day, METADATA_DAY, Metadata_Dy,
                Name_abcdefgQRS, Name_abcdefQRST, Name_Da, Name_Time}
ColumnLists == {c \in SeqsUpTo(NamePool, MaxCols) : ~HasDuplicates(c)}

(***************************************************************************)
(* Specifications                                                          *)
(***************************************************************************)

Idle ==
    /\ argv = <<>>
    /\ args = NoArgs
    /\ fs = [input |-> Unreadable, writable |-> FALSE]
    /\ processed = EmptyDataFrame
    /\ exit_status = "running"
    /\ printed = <<>>
    /\ called = <<>>
    /\ written = NotWritten
    /\ day_actual = None
    /\ cond_actual = None
    /\ filtered = EmptyDataFrame
    /\ ret = NoRet

\* a run of the script
Init ==
    /\ pc = "parse_args"
    /\ argv \in ArgvSet
    /\ fs \in [input : Files, writable : BOOLEAN]
    /\ args = NoArgs
    /\ data = EmptyDataFrame
    /\ processed = EmptyDataFrame
    /\ exit_status = "running"
    /\ printed = <<>>
    /\ called = <<>>
    /\ written = NotWritten
    /\ request = NoRequest
    /\ day_actual = None
    /\ cond_actual = None
    /\ filtered = EmptyDataFrame
    /\ ret = NoRet

Next == ParseArgs \/ ReadCsv \/ ProcessData \/ WriteCsv

Spec == Init /\ [][Next]_vars

\* a call of process_matching_day_condition(data, day_col, cond_col, measure_col)
InitMatched ==
    /\ pc = "find_columns"
    /\ data \in MatchedTables
    /\ request \in [day_col : DayRequests, cond_col : CondRequests,
                    measure_col : {Name_Count}]
    /\ Idle

NextMatched == FindColumns \/ FilterMatching \/ AggregateMatching

SpecMatched == InitMatched /\ [][NextMatched]_vars

\* a call of find_column(df, requested)
InitFind ==
    /\ pc = "find_column"
    /\ data \in {DataFrame(c, <<>>) : c \in ColumnLists}
    /\ request \in [day_col : RequestPool, cond_col : {<<>>}, measure_col : {<<>>}]
    /\ Idle

NextFind == FindColumn

SpecFind == InitFind /\ [][NextFind]_vars

\* both aggregation paths
InitAggregate == Init \/ InitMatched

NextAggregate == Next \/ NextMatched

SpecAggregate == InitAggregate /\ [][NextAggregate]_vars

(***************************************************************************)
(* Properties                                                              *)
(***************************************************************************)

\* process_data of this run has returned its table
ProcessReturned ==
    /\ Len(called) >= 2
    /\ called[2] = "process_data"
    /\ pc = "write_csv" \/ Len(called) = 3

\* the group keys requested on the command line
Keys == ParseConditionCols(args.condition_col)

\* a run whose key columns (one or more, no column twice) and measure column
\* are columns of the table read, past the call of process_data
KeysAndMeasurePresent ==
    /\ args.parsed
    /\ pc \in {"write_csv", "exited"}
    /\ Len(called) >= 2
    /\ Len(Keys) > 0
    /\ ~HasDuplicates(Keys)
    /\ \A i \in 1..Len(Keys) : HasColumn(data, Keys[i])
    /\ HasColumn(data, args.measure_col)

RECURSIVE SumN(_, _, _)
SumN(df, name, r) ==
    IF r = 0 THEN 0 ELSE Cell(df, r, name).num + SumN(df, name, r - 1)

MeasuredRows == {r \in 1..Len(data.rows) : ~IsNaN(Cell(data, r, args.measure_col))}
KeyedRows == {r \in 1..Len(data.rows) :
                 \A i \in 1..Len(Keys) : ~IsNaN(Cell(data, r, Keys[i]))}

\* C1 (as stated): process_data returns a table whose <measure>_n values sum
\* to the number of rows of T with a non-missing measurement, rows with a
\* missing key value being counted in a group of their own.
C1_Original ==
    KeysAndMeasurePresent =>
        /\ ProcessReturned
        /\ SumN(processed, args.measure_col \o Chars_n, Len(processed.rows))
             = Cardinality(MeasuredRows)

\* C1 (amended): process_data returns a table whose <measure>_n values sum to
\* the number of rows of T that hold a non-missing measurement and no missing
\* value in any key column: rows with a missing key value are dropped.
C1_SumOfN ==
    KeysAndMeasurePresent =>
        /\ ProcessReturned
        /\ SumN(processed, args.measure_col \o Chars_n, Len(processed.rows))
             = Cardinality(MeasuredRows \cap KeyedRows)

\* a returned table with counted rows, from a table that also holds a measured
\* row with a missing key
C1_Witness ==
    /\ KeysAndMeasurePresent
    /\ ProcessReturned
    /\ Len(processed.rows) > 0
    /\ MeasuredRows \cap KeyedRows # {}
    /\ MeasuredRows \ KeyedRows # {}

\* the rows of src that belong to the group of result row g: equal in every
\* key column, measurement not missing
GroupValues(src, by, measure, res, g) ==
    {r \in 1..Len(src.rows) :
        /\ \A i \in 1..Len(by) : /\ ~IsNaN(Cell(src, r, by[i]))
                                 /\ KeyEq(Cell(src, r, by[i]), Cell(res, g, by[i]))
        /\ ~IsNaN(Cell(src, r, measure))}

StatsOfGroup(src, by, measure, res, g) ==
    LET n    == Cell(res, g, measure \o Chars_n)
        std  == Cell(res, g, measure \o Chars_std)
        sem  == Cell(res, g, measure \o Chars_sem)
        rows == GroupValues(src, by, measure, res, g)
        vals == {Cell(src, r, measure).n : r \in rows}
    IN  /\ n = Frac(Cardinality(rows), 1)
        /\ std.kind \in {"nan", "sqrt"}
        /\ sem.kind \in {"nan", "sqrt"}
        /\ n.num = 0 => sem = NaNF
        /\ n.num = 1 => std = NaNF /\ sem = NaNF
        /\ n.num >= 2 =>
              /\ std.kind = "sqrt" /\ sem.kind = "sqrt"
              \* sem^2 * n = std^2
              /\ sem.num * n.num * std.den = std.num * sem.den
        /\ n.num >= 2 /\ Cardinality(vals) = 1 => std.num = 0 /\ sem.num = 0

MatchedAggregated ==
    /\ pc = "returned"
    /\ Len(called) = 4

\* C2: in every group of the result of process_data and of the matched-pair
\* path, n = 0 gives a missing sem, n = 1 a missing std and sem, n >= 2 with
\* identical values std = 0 and sem = 0, and otherwise sem = std / sqrt(n);
\* no statistic is a division by zero or an error.
C2_Statistics ==
    /\ (args.parsed /\ ProcessReturned) =>
          \A g \in 1..Len(processed.rows) :
              StatsOfGroup(data, Keys, args.measure_col, processed, g)
    /\ MatchedAggregated =>
          \A g \in 1..Len(ret.frame.rows) :
              StatsOfGroup(filtered, <<request.day_col>>, request.measure_col,
                           ret.frame, g)

\* a matched-pair result with a group of two different values
C2_Witness ==
    /\ MatchedAggregated
    /\ \E g \in 1..Len(ret.frame.rows) :
          /\ Cell(ret.frame, g, request.measure_col \o Chars_n).num >= 2
          /\ Cell(ret.frame, g, request.measure_col \o Chars_std).num > 0

MatchedDone == pc \in {"returned", "raised"}

\* C3 (as stated): when both requests resolve and a row survives the filter,
\* the survivors are grouped by the resolved day column and the aggregate
\* table is returned.
C3_GroupsByResolved ==
    (MatchedDone /\ day_actual # None /\ cond_actual # None
        /\ Len(filtered.rows) > 0) =>
        /\ ret.kind = "returned"
        /\ ret.frame = Aggregate(filtered, <<day_actual>>, request.measure_col).frame

\* the table of C4
C4_Table == MatchedFrame("int", <<<<1, <<"1">>, IntV(10)>>, <<1, <<"2">>, IntV(20)>>,
                                  <<2, <<"2">>, IntV(30)>>>>)
C4_Call ==
    /\ data = C4_Table
    /\ request = [day_col |-> Name_Day, cond_col |-> Name_Condition,
                  measure_col |-> Name_Count]
    /\ MatchedDone
C4_Header == <<Name_Day, Name_Count \o Chars_mean, Name_Count \o Chars_n,
               Name_Count \o Chars_std, Name_Count \o Chars_sem>>

\* C4 (as stated): only the third row survives; one record, Day=2, n=1,
\* mean=30, std and sem missing.
C4_Original ==
    C4_Call =>
        /\ filtered.rows = <<C4_Table.rows[3]>>
        /\ ret = [kind |-> "returned",
                  frame |-> DataFrame(C4_Header,
                      <<<<IntV(2), Frac(30, 1), Frac(1, 1), NaNF, NaNF>>>>)]

\* C4 (amended): the first row (Day=1, Condition="1") and the third row
\* survive; two records, Day=1 with n=1, mean=10 and Day=2 with n=1,
\* mean=30, std and sem missing in both.
C4_TwoRows ==
    C4_Call =>
        /\ filtered.rows = <<C4_Table.rows[1], C4_Table.rows[3]>>
        /\ ret = [kind |-> "returned",
                  frame |-> DataFrame(C4_Header,
                      <<<<IntV(1), Frac(10, 1), Frac(1, 1), NaNF, NaNF>>,
                        <<IntV(2), Frac(30, 1), Frac(1, 1), NaNF, NaNF>>>>)]

C4_Witness == C4_Call /\ pc = "returned" /\ Len(called) = 4

\* C5: when the day request or the condition request resolves to no column,
\* the call prints the available columns and returns an empty table; it
\* neither raises nor exits, and it filters and groups nothing.
C5_Unresolved ==
    (pc # "find_columns" /\ (day_actual = None \/ cond_actual = None)) =>
        /\ pc = "returned"
        /\ ret = [kind |-> "returned", frame |-> EmptyDataFrame]
        /\ printed = <<Msg("stdout", "Could not find columns requested. Available columns:"),
                       MsgArg("stdout", "columns", data.columns)>>
        /\ called = <<"find_column", "find_column">>
        /\ filtered = EmptyDataFrame
        /\ exit_status = "running"

\* only the day request is unresolved
C5_Witness ==
    /\ pc = "returned"
    /\ day_actual = None
    /\ cond_actual = Name_Condition

Found == pc = "found"
Requested == request.day_col
CaseMatch == \E i \in 1..Len(data.columns) : Lower(data.columns[i]) = Lower(Requested)

\* C6: find_column returns one of the columns or no match; exact match comes
\* first (an exact request returns itself whatever the other columns are),
\* then the case-insensitive match, and the fuzzy match only after both.
C6_FirstSuccessWins ==
    Found =>
        /\ day_actual = None \/ HasColumn(data, day_actual)
        /\ HasColumn(data, Requested) => day_actual = Requested
        /\ (~HasColumn(data, Requested) /\ CaseMatch) =>
              /\ HasColumn(data, day_actual)
              /\ Lower(day_actual) = Lower(Requested)
        /\ Len(data.columns) = 0 => day_actual = None

\* an exact request beside a later column that differs from it by case only
C6_Witness ==
    /\ Found
    /\ data.columns = <<metadata_day, Metadata_Day>>
    /\ Requested = metadata_day
    /\ day_actual = metadata_day

Similarity(c) == Ratio(c, Requested)
AtLeast07(r) == 10 * r[1] >= 7 * r[2]

\* C7: without an exact or case-insensitive match, find_column returns a
\* column of highest similarity exactly when that similarity is at least
\* 0.7 (0.7 itself accepted) and no match otherwise; "Metadata_Dy" resolves
\* to "Metadata_Day".
C7_FuzzyThreshold ==
    (Found /\ ~HasColumn(data, Requested) /\ ~CaseMatch) =>
        /\ day_actual # None <=>
              \E i \in 1..Len(data.columns) : AtLeast07(Similarity(data.columns[i]))
        /\ day_actual # None =>
              /\ HasColumn(data, day_actual)
              /\ \A i \in 1..Len(data.columns) :
                    ~FracLess(Similarity(day_actual), Similarity(data.columns[i]))
        /\ (Requested = Metadata_Dy /\ HasColumn(data, Metadata_Day)) =>
              day_actual = Metadata_Day

\* a similarity of exactly 0.7 (14/20) is accepted
C7_Witness ==
    /\ Found
    /\ Requested = Name_abcdefgQRS
    /\ day_actual = Name_abcdefgxyz
    /\ Similarity(day_actual) = <<14, 20>>

StatHeader(measure) ==
    <<measure \o Chars_mean, measure \o Chars_n, measure \o Chars_std,
      measure \o Chars_sem>>

ErrorPrinted(text) == \E i \in 1..Len(printed) : printed[i].text = text

Pipeline == <<"read_csv", "process_data", "write_csv">>
LastPrinted == printed[Len(printed)]

\* C9 (as stated): every run is read -> aggregate -> write and ends with
\* status 0 after all three steps or with status 1 at the first failing
\* step, a message printed before it; status 0 implies the output was
\* written from a complete result table.
C9_Original ==
    /\ exit_status \in {"running", "0", "1"}
    /\ exit_status = "0" =>
          /\ called = Pipeline
          /\ written = [exists |-> TRUE, frame |-> processed]
    /\ exit_status = "1" =>
          /\ ~written.exists
          /\ Len(printed) > 0

\* C9 (amended): every run whose command line parses into the four
\* positional arguments is read -> aggregate -> write and ends with status 0
\* after all three steps or with status 1 at the first failing step, a
\* message printed before it, and nothing is written after a failure; a run
\* whose command line does not parse ends before the read, with status 2
\* (usage error) or 0 (-h), and writes nothing.
C9_Pipeline ==
    /\ args.parsed =>
          /\ exit_status \in {"running", "0", "1"}
          /\ called = SubSeq(Pipeline, 1, Len(called))
          /\ exit_status = "0" =>
                /\ called = Pipeline
                /\ fs.input.readable /\ fs.writable
                /\ data = PdReadCsv(fs.input)
                /\ ~Aggregate(data, Keys, args.measure_col).raised
                /\ written = [exists |-> TRUE, frame |-> processed]
                /\ LastPrinted = Msg("stdout", "Output written")
          /\ exit_status = "1" =>
                /\ pc = "exited"
                /\ ~written.exists
                /\ Len(printed) = 1
                /\ LastPrinted.stream = "stdout"
                /\ called = <<"read_csv">> <=>
                      LastPrinted.text = "Error reading"
                /\ called = <<"read_csv", "process_data">> <=>
                      LastPrinted.text = "Error processing data"
                /\ called = Pipeline <=> LastPrinted.text = "Error writing"
                /\ ~fs.input.readable <=> called = <<"read_csv">>
                /\ called = Pipeline => ~fs.writable
          /\ written.exists => exit_status = "0"
    /\ (~args.parsed /\ pc = "exited") =>
          /\ called = <<>>
          /\ ~written.exists
          /\ exit_status \in {"0", "2"}
          /\ exit_status = "0" <=> ParseArgsOutcome(argv) = "help"

\* a run that ends at a processing failure
C9_Witness ==
    /\ exit_status = "1"
    /\ called = <<"read_csv", "process_data">>
    /\ fs.writable

NeverMatched ==
    /\ \A i \in 1..Len(called) : called[i] # "process_matching_day_condition"
    /\ ret = NoRet

\* C10 (as stated): the table read is consumed by the Group Aggregator or by
\* the Matched-Pair Filter+Aggregator depending on the requested mode; there
\* is a run in which process_matching_day_condition is the aggregation step
\* between read and write.  No input of a run selects its aggregation step
\* (C10_OnlyProcessData), so such a run exists only if the runs that complete
\* are such runs.
C10_Original ==
    (exit_status = "0" /\ written.exists) =>
        called[2] = "process_matching_day_condition"

\* C10 (amended): in every run the table read is consumed by process_data
\* and its result is what the writer is given; no command line makes
\* process_matching_day_condition run.
C10_OnlyProcessData ==
    /\ NeverMatched
    /\ pc = "write_csv" \/ written.exists =>
          /\ called[1] = "read_csv" /\ called[2] = "process_data"
          /\ data = PdReadCsv(fs.input)
          /\ processed = Aggregate(data, Keys, args.measure_col).frame
    /\ written.exists => written.frame = processed /\ called = Pipeline

C10_Witness ==
    /\ written.exists
    /\ Len(written.frame.rows) > 1
    /\ called = Pipeline

====
